---- MODULE Spec2Model ----
(***************************************************************************)
(* Model of the syllabus progress bot of src/index.py: the two JSON        *)
(* documents (syllabi.json, progress.json), the command and button         *)
(* handlers that load, mutate and save them, and the daily reminder job.   *)
(*                                                                         *)
(* Time is counted in ticks, DayLen ticks to the day; timedelta.days is    *)
(* the floor of the tick difference divided by DayLen.  The several        *)
(* datetime.now() calls of one handler are one instant, `now`.             *)
(*                                                                         *)
(* A handler loads, changes and saves the documents without awaiting in    *)
(* between, so it is one action.  check_due_dates awaits send_message      *)
(* between its load and its save, so it is two: handlers can run between.  *)
(* What a handler answers is an operator of the state it finds (the        *)
(* *_answer definitions); the Yes/No keyboards still in the chat are        *)
(* counted, since a button can be pressed long after it was shown.         *)
(* Runs are explored up to MaxSteps updates and MaxTime ticks (Spec); over  *)
(* LongDays days from a state with fewer updates left (LongSpec); and with  *)
(* the job run by its daily timer under fairness (LiveSpec).               *)
(***************************************************************************)
EXTENDS Integers, Sequences, FiniteSets, TLC

\* ---------------------------------------------------------------- bounds
MaxTasks == 2          \* longest task list of a syllabus in the catalog
MaxTime == 3           \* the clock stops after this many ticks
DayLen == 2            \* ticks per day
BigInterval == 9       \* the largest argument given to /set_interval
MaxSteps == 6          \* updates (commands, button presses, job runs) in a run
LongDays == 5          \* the days a long run lasts

Syllabi == {"A", "B"}              \* the names in syllabi.json
Catalog == [n \in Syllabi |-> IF n = "A" THEN MaxTasks ELSE 1]   \* tasks of each
Names == Syllabi \cup {"X"}        \* callback data: a name, known or not
IntervalArgs == {<<>>} \cup {<<d>> : d \in ((0 - 1)..1) \cup {BigInterval}}

\* ------------------------------------------------------- program constants
DefaultInterval == 7   \* "reminder_interval": 7
MinExtension == 3      \* max(3, interval // 2)
OverdueGap == 3        \* (now - last_reminder).days >= 3
Year2000 == 0 - 9000 * DayLen      \* the default "2000-01-01T00:00:00"

VARIABLES
    now,           \* datetime.now(), in ticks
    syllabi,       \* syllabi.json: [current_field, syllabi: name -> [tasks, paused]]
    progress,      \* progress.json: [global_settings, syllabi_progress]
    prompts,       \* messages of /check whose Yes/No buttons are still there
    reset_prompts, \* messages of /reset whose buttons are still there
    job,           \* check_due_dates suspended in send_message: <<doc to save>>
    steps,         \* updates handled so far
    sent           \* what the last run of check_due_dates sent; "none": no run yet

vars == <<now, syllabi, progress, prompts, reset_prompts, job, steps, sent>>

\* one more update is taken from the queue
Update == steps < MaxSteps /\ steps' = steps + 1

\* ---------------------------------------------------------------- helpers
Range(s) == {s[i] : i \in 1..Len(s)}

Max(a, b) == IF a >= b THEN a ELSE b

\* timedelta(...).days of a difference of two instants
days(delta) == delta \div DayLen

\* timedelta(days=n)
timedelta(n) == n * DayLen

\* len(syllabi["syllabi"][name]["tasks"])
len_tasks(name) == syllabi.syllabi[name].tasks

is_paused(name) == syllabi.syllabi[name].paused

\* the record a progress document holds for a name
record(p, name) == p.syllabi_progress[name]

\* what a handler answers: which message, and the task index it shows
Answer(kind, task) == [kind |-> kind, task |-> task]
NoTask == 0 - 1

\* "not syllabi['current_field'] or syllabi['syllabi'][current_field]['paused']"
no_active_syllabus ==
    \/ syllabi.current_field = ""
    \/ is_paused(syllabi.current_field)

\* load_progress() of a missing file
default_progress ==
    [global_settings |-> [reminder_interval |-> DefaultInterval,
                          reminders_enabled |-> TRUE,
                          last_reminder |-> <<>>],
     syllabi_progress |-> <<>>]

\* lines 72-77 and 766-771: the record of a syllabus that has none yet, and
\* the record /reset writes.
\* Two history fields are kept with the record: yes_count, the number of
\* handle_yes_response calls that made it since it was created or reset, and
\* origin, whether get_syllabus_progress or handle_reset_yes wrote it.
fresh_record(p, origin) ==
    [origin |-> origin,
     current_week |-> 1,
     completed_weeks |-> <<>>,
     completion_dates |-> <<>>,
     start_date |-> now,
     due_date |-> now + timedelta(p.global_settings.reminder_interval),
     yes_count |-> 0]

get_syllabus_progress(p, name) ==
    IF name \in DOMAIN p.syllabi_progress
    THEN p
    ELSE [p EXCEPT !.syllabi_progress = (name :> fresh_record(p, "new")) @@ @]

\* mutant of update_due_date: the interval is added to the old due date
update_due_date_from_old(p, name) ==
    LET q == get_syllabus_progress(p, name)
        interval == q.global_settings.reminder_interval
    IN  [q EXCEPT !.syllabi_progress[name].due_date = @ + timedelta(interval)]

\* lines 82-87
update_due_date(p, name) ==
    LET q == get_syllabus_progress(p, name)
        interval == q.global_settings.reminder_interval
    IN  [q EXCEPT !.syllabi_progress[name].due_date = now + timedelta(interval)]

\* ------------------------------------------------------------------- Init
Init ==
    /\ now = 0
    /\ syllabi = [current_field |-> "",
                  syllabi |-> [n \in Syllabi |-> [tasks |-> Catalog[n], paused |-> FALSE]]]
    /\ progress = default_progress
    /\ prompts = 0
    /\ reset_prompts = 0
    /\ job = <<>>
    /\ steps = 0
    /\ sent = "none"

\* the clock; send_message does not take half a day
Tick ==
    /\ now < MaxTime
    /\ job = <<>>
    /\ now' = now + 1
    /\ UNCHANGED <<syllabi, progress, prompts, reset_prompts, job, steps, sent>>


\* ------------------------------------------------- /start and /switch_syllabus

\* mutant of start_progress: the due date is recomputed for any record
start_progress_always(p, field_name) ==
    LET p2 == update_due_date(p, field_name)
        beyond == record(p2, field_name).current_week - 1 >= len_tasks(field_name)
    IN  IF beyond THEN [p2 EXCEPT !.syllabi_progress[field_name].current_week = 1]
                  ELSE p2

\* lines 146-160: the progress document start_syllabus_callback leaves on disk
start_progress(p, field_name) ==
    LET p1 == get_syllabus_progress(p, field_name)
        current_week == record(p1, field_name).current_week
        starting == current_week = 1 /\ record(p1, field_name).completed_weeks = <<>>
        p2 == IF starting THEN update_due_date(p1, field_name) ELSE p1
        beyond == current_week - 1 >= len_tasks(field_name)
        p3 == IF beyond THEN [p2 EXCEPT !.syllabi_progress[field_name].current_week = 1]
                        ELSE p2
    IN  IF starting \/ beyond THEN p3 ELSE p

\* lines 433-449: the progress document switch_syllabus_callback leaves on disk
switch_progress(p, field_name) ==
    LET p1 == get_syllabus_progress(p, field_name)
        current_week == record(p1, field_name).current_week
        p2 == update_due_date(p1, field_name)
        beyond == current_week - 1 >= len_tasks(field_name)
    IN  IF beyond THEN [p2 EXCEPT !.syllabi_progress[field_name].current_week = 1]
                  ELSE p2

\* mutant of selectable: the paused flag is not read
selectable_any(field_name) == field_name \in DOMAIN syllabi.syllabi

\* "field_name in syllabi['syllabi'] and not ...get('paused', False)"
selectable(field_name) ==
    field_name \in DOMAIN syllabi.syllabi /\ ~is_paused(field_name)

\* lines 155-176 and 443-459: the message both callbacks edit in
select_answer(field_name) ==
    IF selectable(field_name)
    THEN LET current_week == record(get_syllabus_progress(progress, field_name),
                                    field_name).current_week
             task_index == IF current_week - 1 >= len_tasks(field_name)
                           THEN 0 ELSE current_week - 1
         IN  Answer("switched_to", task_index)
    ELSE Answer("is_paused", NoTask)

start_syllabus_callback(field_name) ==
    /\ Update
    /\ IF selectable(field_name)
       THEN /\ syllabi' = [syllabi EXCEPT !.current_field = field_name]
            /\ progress' = start_progress(progress, field_name)
       ELSE UNCHANGED <<syllabi, progress>>
    /\ UNCHANGED <<now, prompts, reset_prompts, job, sent>>

switch_syllabus_callback(field_name) ==
    /\ Update
    /\ IF selectable(field_name)
       THEN /\ syllabi' = [syllabi EXCEPT !.current_field = field_name]
            /\ progress' = switch_progress(progress, field_name)
       ELSE UNCHANGED <<syllabi, progress>>
    /\ UNCHANGED <<now, prompts, reset_prompts, job, sent>>

\* ------------------------------------------------------------------ /current

\* the current_week the handlers read for the selected syllabus
loaded_week ==
    record(get_syllabus_progress(progress, syllabi.current_field),
           syllabi.current_field).current_week

\* lines 212-243
current_week_answer ==
    IF no_active_syllabus
    THEN Answer("no_active", NoTask)
    ELSE IF 0 < loaded_week /\ loaded_week <= len_tasks(syllabi.current_field)
    THEN Answer("current_task", loaded_week - 1)
    ELSE Answer("no_current_task", NoTask)

\* the record get_syllabus_progress makes is not saved
current_week ==
    /\ Update
    /\ UNCHANGED <<now, syllabi, progress, prompts, reset_prompts, job, sent>>

\* -------------------------------------------------------------------- /check

\* lines 289-326
check_answer ==
    IF no_active_syllabus
    THEN Answer("no_active", NoTask)
    ELSE IF loaded_week > 0 /\ loaded_week <= len_tasks(syllabi.current_field)
    THEN Answer("have_you_completed", loaded_week - 1)
    ELSE Answer("no_task_to_check", NoTask)

check_progress ==
    /\ Update
    /\ IF check_answer.kind = "have_you_completed"
       THEN prompts' = prompts + 1
       ELSE UNCHANGED prompts
    /\ UNCHANGED <<now, syllabi, progress, reset_prompts, job, sent>>

\* --------------------------------------------------------- the "Yes" button

\* mutant of mark_completed: the append without the membership test
mark_completed_unguarded(completed_weeks, current_week_index) ==
    Append(completed_weeks, current_week_index)

\* lines 659-660: completed_weeks after the guarded append
mark_completed(completed_weeks, current_week_index) ==
    IF current_week_index \notin Range(completed_weeks)
    THEN Append(completed_weeks, current_week_index)
    ELSE completed_weeks

\* mutant of yes_progress: the 1-based week is used as the task index
yes_progress_one_based(p, current_field) ==
    LET p1 == get_syllabus_progress(p, current_field)
        sp == record(p1, current_field)
        current_week_index == sp.current_week
        p2 == [p1 EXCEPT !.syllabi_progress[current_field] =
                  [sp EXCEPT
                     !.completed_weeks = Append(@, current_week_index),
                     !.completion_dates = (current_week_index :> now) @@ @,
                     !.current_week = @ + 1,
                     !.yes_count = @ + 1]]
    IN  [p2 EXCEPT !.syllabi_progress[current_field].due_date =
                      now + timedelta(p2.global_settings.reminder_interval)]

\* lines 651-672: the progress document handle_yes_response saves
yes_progress(p, current_field) ==
    LET p1 == get_syllabus_progress(p, current_field)
        sp == record(p1, current_field)
        current_week_index == sp.current_week - 1
        p2 == [p1 EXCEPT !.syllabi_progress[current_field] =
                  [sp EXCEPT
                     !.completed_weeks = mark_completed(@, current_week_index),
                     !.completion_dates = (current_week_index :> now) @@ @,
                     !.current_week = @ + 1,
                     !.yes_count = @ + 1]]
    IN  update_due_date(p2, current_field)

\* lines 646-701
yes_answer ==
    IF syllabi.current_field = ""
    THEN Answer("no_active", NoTask)
    ELSE LET next == record(yes_progress(progress, syllabi.current_field),
                            syllabi.current_field).current_week
         IN  IF next > len_tasks(syllabi.current_field)
             THEN Answer("syllabus_completed", NoTask)
             ELSE Answer("move_on_to", next - 1)

\* mutant of handle_yes_response: an empty current_field is not refused
handle_yes_response_any_field ==
    /\ Update
    /\ prompts > 0
    /\ prompts' = prompts - 1
    /\ progress' = yes_progress(progress, syllabi.current_field)
    /\ UNCHANGED <<now, syllabi, reset_prompts, job, sent>>

\* lines 638-703
handle_yes_response ==
    /\ Update
    /\ prompts > 0
    /\ prompts' = prompts - 1
    /\ IF syllabi.current_field = ""
       THEN UNCHANGED progress
       ELSE progress' = yes_progress(progress, syllabi.current_field)
    /\ UNCHANGED <<now, syllabi, reset_prompts, job, sent>>

\* ---------------------------------------------------------- the "No" button

\* mutant of extension: half the interval, without the minimum
extension_half(interval) == interval \div 2

\* line 724
extension(interval) == Max(MinExtension, interval \div 2)

\* lines 717-730: the progress document handle_no_response saves
no_progress(p, current_field) ==
    LET p1 == get_syllabus_progress(p, current_field)
        interval == p1.global_settings.reminder_interval
    IN  [p1 EXCEPT !.syllabi_progress[current_field].due_date =
                      @ + timedelta(extension(interval))]

\* lines 713-747; tasks[current_week-1] is read after the save
no_answer ==
    IF syllabi.current_field = ""
    THEN Answer("no_active", NoTask)
    ELSE IF loaded_week - 1 < len_tasks(syllabi.current_field)
    THEN Answer("keep_working_on", loaded_week - 1)
    ELSE Answer("error", NoTask)

handle_no_response ==
    /\ Update
    /\ prompts > 0
    /\ prompts' = prompts - 1
    /\ IF syllabi.current_field = ""
       THEN UNCHANGED progress
       ELSE progress' = no_progress(progress, syllabi.current_field)
    /\ UNCHANGED <<now, syllabi, reset_prompts, job, sent>>

\* ------------------------------------------------------------------- /reset

\* lines 333-351
reset_answer ==
    IF no_active_syllabus
    THEN Answer("no_active", NoTask)
    ELSE Answer("are_you_sure", NoTask)

reset_progress ==
    /\ Update
    /\ IF reset_answer.kind = "are_you_sure"
       THEN reset_prompts' = reset_prompts + 1
       ELSE UNCHANGED reset_prompts
    /\ UNCHANGED <<now, syllabi, progress, prompts, job, sent>>

\* mutant of reset_record: only the week pointer and the dates are reset
reset_record_week_only(p, current_field) ==
    [p EXCEPT !.syllabi_progress[current_field] =
        [@ EXCEPT !.origin = "reset",
                  !.current_week = 1,
                  !.yes_count = 0,
                  !.start_date = now,
                  !.due_date = now + timedelta(p.global_settings.reminder_interval)]]

\* mutant of reset_record: the completion dates outlive the reset
reset_record_keeping_dates(p, current_field) ==
    [p EXCEPT !.syllabi_progress[current_field] =
        [fresh_record(p, "reset") EXCEPT !.completion_dates =
            record(p, current_field).completion_dates]]

\* lines 765-772: the progress document handle_reset_yes saves
reset_record(p, current_field) ==
    [p EXCEPT !.syllabi_progress[current_field] = fresh_record(p, "reset")]

\* lines 757-780
reset_yes_answer ==
    IF syllabi.current_field = ""
    THEN Answer("no_active", NoTask)
    ELSE IF syllabi.current_field \in DOMAIN progress.syllabi_progress
    THEN Answer("progress_reset", 0)
    ELSE Answer("no_progress_found", NoTask)

handle_reset_yes ==
    /\ Update
    /\ reset_prompts > 0
    /\ reset_prompts' = reset_prompts - 1
    /\ IF reset_yes_answer.kind = "progress_reset"
       THEN progress' = reset_record(progress, syllabi.current_field)
       ELSE UNCHANGED progress
    /\ UNCHANGED <<now, syllabi, prompts, job, sent>>

handle_reset_no ==
    /\ Update
    /\ reset_prompts > 0
    /\ reset_prompts' = reset_prompts - 1
    /\ UNCHANGED <<now, syllabi, progress, prompts, job, sent>>

\* ------------------------------------------- /pause_syllabus, /resume_syllabus
\* mutant of pause_syllabus_callback: current_field is left as it is
pause_syllabus_callback_flag_only(field_name) ==
    /\ Update
    /\ IF field_name \in DOMAIN syllabi.syllabi
       THEN syllabi' = [syllabi EXCEPT !.syllabi[field_name].paused = TRUE]
       ELSE UNCHANGED syllabi
    /\ UNCHANGED <<now, progress, prompts, reset_prompts, job, sent>>

\* lines 476-492
pause_syllabus_callback(field_name) ==
    /\ Update
    /\ IF field_name \in DOMAIN syllabi.syllabi
       THEN syllabi' = [syllabi EXCEPT
                          !.syllabi[field_name].paused = TRUE,
                          !.current_field = IF @ = field_name THEN "" ELSE @]
       ELSE UNCHANGED syllabi
    /\ UNCHANGED <<now, progress, prompts, reset_prompts, job, sent>>

\* lines 509-523
resume_syllabus_callback(field_name) ==
    /\ Update
    /\ IF field_name \in DOMAIN syllabi.syllabi
       THEN syllabi' = [syllabi EXCEPT !.syllabi[field_name].paused = FALSE]
       ELSE UNCHANGED syllabi
    /\ UNCHANGED <<now, progress, prompts, reset_prompts, job, sent>>

\* --------------------------------------------- /toggle_reminders, /set_interval
toggle_reminders ==
    /\ Update
    /\ progress' = [progress EXCEPT !.global_settings.reminders_enabled = ~@]
    /\ UNCHANGED <<now, syllabi, prompts, reset_prompts, job, sent>>

\* mutant of set_interval_answer: zero days are let through
set_interval_answer_nonnegative(args) ==
    IF args = <<>> THEN "usage"
    ELSE IF args[1] < 0 THEN "use_a_positive_number"
    ELSE "interval_set"

\* lines 542-566; args is context.args, here no argument or one integer
set_interval_answer(args) ==
    IF args = <<>> THEN "usage"
    ELSE IF args[1] < 1 THEN "use_a_positive_number"
    ELSE "interval_set"

\* mutant of interval_progress: every record's due date is recomputed
interval_progress_all(p, d) ==
    LET p1 == [p EXCEPT !.global_settings.reminder_interval = d]
    IN  [p1 EXCEPT !.syllabi_progress =
            [s \in DOMAIN @ |-> [@[s] EXCEPT !.due_date = now + timedelta(d)]]]

\* lines 555-563: the progress document set_reminder_interval saves
interval_progress(p, d) ==
    LET p1 == [p EXCEPT !.global_settings.reminder_interval = d]
    IN  IF syllabi.current_field # ""
        THEN update_due_date(p1, syllabi.current_field)
        ELSE p1

set_reminder_interval(args) ==
    /\ Update
    /\ IF set_interval_answer(args) = "interval_set"
       THEN progress' = interval_progress(progress, args[1])
       ELSE UNCHANGED progress
    /\ UNCHANGED <<now, syllabi, prompts, reset_prompts, job, sent>>

\* --------------------------------------------------------------- /statistics

\* lines 617-632: the "Estimated completion ... (in N days)" line for the
\* record sp of a syllabus of total_tasks tasks: <<N>>, or <<>> when the
\* line is left out.  N is int(remaining_tasks * days_active / completed_tasks).
statistics_estimate(sp, total_tasks) ==
    LET completed_tasks == Len(sp.completed_weeks)
        days_active == days(now - sp.start_date)
        remaining_tasks == total_tasks - sp.current_week + 1
    IN  IF /\ sp.current_week <= total_tasks
           /\ days_active > 0
           /\ completed_tasks > 0
        THEN <<(remaining_tasks * days_active) \div completed_tasks>>
        ELSE <<>>

\* lines 571-635: what /statistics shows; only an empty current_field is
\* refused, and current_field is always a key of the catalog
statistics_answer ==
    IF syllabi.current_field = ""
    THEN [kind |-> "no_active", days_left |-> <<>>, estimate |-> <<>>]
    ELSE LET sp == record(get_syllabus_progress(progress, syllabi.current_field),
                          syllabi.current_field)
         IN  [kind |-> "statistics",
              days_left |-> <<days(sp.due_date - now)>>,
              estimate |-> statistics_estimate(sp, len_tasks(syllabi.current_field))]

\* the record get_syllabus_progress makes is not saved
show_statistics ==
    /\ Update
    /\ UNCHANGED <<now, syllabi, progress, prompts, reset_prompts, job, sent>>

\* ------------------------------------------------------- the daily reminder
\* mutant of last_reminder: a stored last_reminder is read as the present
last_reminder_never_ages(p) ==
    IF p.global_settings.last_reminder = <<>> THEN Year2000 ELSE now

\* line 844
last_reminder(p) ==
    IF p.global_settings.last_reminder = <<>>
    THEN Year2000
    ELSE p.global_settings.last_reminder[1]

\* mutant of skip_run: the reminders_enabled flag is not looked at
skip_run_ignoring_flag(p) == no_active_syllabus

\* lines 797-803: the two early returns of check_due_dates
skip_run(p) ==
    ~p.global_settings.reminders_enabled \/ no_active_syllabus

\* line 814
days_remaining(p, name) == days(record(p, name).due_date - now)

\* mutant of has_task: the week pointer is not compared with the task list
has_task_always(p, name) == TRUE

\* lines 818-819 and 846-847
has_task(p, name) == record(p, name).current_week <= len_tasks(name)

\* mutant of overdue_gap_passed: a day less than the gap is enough
overdue_gap_passed_early(p) == days(now - last_reminder(p)) >= OverdueGap - 1

\* lines 844-845
overdue_gap_passed(p) == days(now - last_reminder(p)) >= OverdueGap

\* mutant of urgency: the due-soon notices wait for the gap as well
urgency_throttled(p, name) ==
    IF ~(has_task(p, name) /\ overdue_gap_passed(p)) THEN "silent"
    ELSE IF days_remaining(p, name) = 0 THEN "due_today"
    ELSE IF days_remaining(p, name) = 1 THEN "due_tomorrow"
    ELSE IF days_remaining(p, name) < 0 THEN "overdue"
    ELSE "silent"

\* lines 817-860: the message check_due_dates sends about the syllabus `name`
\* whose record is in the loaded document p, "silent" when it sends none
urgency(p, name) ==
    IF 0 <= days_remaining(p, name) /\ days_remaining(p, name) <= 1
    THEN IF ~has_task(p, name) THEN "silent"
         ELSE IF days_remaining(p, name) = 0 THEN "due_today"
         ELSE "due_tomorrow"
    ELSE IF /\ days_remaining(p, name) < 0
            /\ overdue_gap_passed(p)
            /\ has_task(p, name)
    THEN "overdue"
    ELSE "silent"

\* mutant of due_notice: any unpaused syllabus with a record is looked at
due_notice_any ==
    IF ~progress.global_settings.reminders_enabled THEN "silent"
    ELSE IF \E s \in DOMAIN progress.syllabi_progress :
               ~is_paused(s) /\ urgency(progress, s) # "silent"
    THEN LET s == CHOOSE s \in DOMAIN progress.syllabi_progress :
                     ~is_paused(s) /\ urgency(progress, s) # "silent"
         IN  urgency(progress, s)
    ELSE "silent"

\* lines 794-860: what a run of check_due_dates sends; only the record of
\* syllabi["current_field"] is looked at
due_notice ==
    IF skip_run(progress)
    THEN "silent"
    ELSE urgency(get_syllabus_progress(progress, syllabi.current_field),
                 syllabi.current_field)

\* lines 791-860: a run of the job up to the await of send_message.  The run
\* that sends the overdue notice is suspended there holding the document it
\* loaded.
run_due_check ==
    /\ job = <<>>
    /\ sent' = due_notice
    /\ IF due_notice = "overdue"
       THEN job' = <<[get_syllabus_progress(progress, syllabi.current_field)
                        EXCEPT !.global_settings.last_reminder = <<now>>]>>
       ELSE UNCHANGED job
    /\ UNCHANGED <<now, syllabi, progress, prompts, reset_prompts>>

\* a run of the job, counted among the updates of the run
check_due_dates == Update /\ run_due_check

\* lines 862-864: send_message returned; the document loaded before it is saved
check_due_dates_save ==
    /\ job # <<>>
    /\ progress' = job[1]
    /\ job' = <<>>
    /\ UNCHANGED <<now, syllabi, prompts, reset_prompts, steps, sent>>

\* ------------------------------------------------------------------- Next
\* an update is handled, or send_message returns
Handlers ==
    \/ \E n \in Names : start_syllabus_callback(n)
    \/ \E n \in Names : switch_syllabus_callback(n)
    \/ current_week
    \/ check_progress
    \/ handle_yes_response
    \/ handle_no_response
    \/ reset_progress
    \/ handle_reset_yes
    \/ handle_reset_no
    \/ \E n \in Names : pause_syllabus_callback(n)
    \/ \E n \in Names : resume_syllabus_callback(n)
    \/ toggle_reminders
    \/ \E a \in IntervalArgs : set_reminder_interval(a)
    \/ show_statistics
    \/ check_due_dates
    \/ check_due_dates_save

Next == Tick \/ Handlers

Spec == Init /\ [][Next]_vars

\* ------------------------------------------------------ runs over many days
\* The reminder gap is counted in days, so the runs that meet it are long.
\* They start after "/set_interval 1" and the selection of syllabus "A",
\* both at tick 0, and go on for LongDays days with the updates that are left.
LongInit ==
    /\ now = 0
    /\ syllabi = [current_field |-> "A",
                  syllabi |-> [n \in Syllabi |-> [tasks |-> Catalog[n], paused |-> FALSE]]]
    /\ progress = [global_settings |-> [reminder_interval |-> 1,
                                        reminders_enabled |-> TRUE,
                                        last_reminder |-> <<>>],
                   syllabi_progress |->
                       ("A" :> [origin |-> "new",
                                current_week |-> 1,
                                completed_weeks |-> <<>>,
                                completion_dates |-> <<>>,
                                start_date |-> 0,
                                due_date |-> timedelta(1),
                                yes_count |-> 0])]
    /\ prompts = 0
    /\ reset_prompts = 0
    /\ job = <<>>
    /\ steps = 2
    /\ sent = "none"

LongTick ==
    /\ now < timedelta(LongDays)
    /\ job = <<>>
    /\ now' = now + 1
    /\ UNCHANGED <<syllabi, progress, prompts, reset_prompts, job, steps, sent>>

LongNext == LongTick \/ Handlers

LongSpec == LongInit /\ [][LongNext]_vars
\* ------------------------------------------------- the job that keeps running
\* run_daily starts the job every day, whatever else happens: these runs are
\* not taken from the updates of the run.
daily_check == run_due_check /\ UNCHANGED steps

LiveNext == LongTick \/ Handlers \/ daily_check

\* The state after "/set_interval 1", the selection of "A", /check and
\* /reset, all at tick 0: both keyboards are in the chat.
LiveInit ==
    /\ now = 0
    /\ syllabi = [current_field |-> "A",
                  syllabi |-> [n \in Syllabi |-> [tasks |-> Catalog[n], paused |-> FALSE]]]
    /\ progress = [global_settings |-> [reminder_interval |-> 1,
                                        reminders_enabled |-> TRUE,
                                        last_reminder |-> <<>>],
                   syllabi_progress |->
                       ("A" :> [origin |-> "new",
                                current_week |-> 1,
                                completed_weeks |-> <<>>,
                                completion_dates |-> <<>>,
                                start_date |-> 0,
                                due_date |-> timedelta(1),
                                yes_count |-> 0])]
    /\ prompts = 1
    /\ reset_prompts = 1
    /\ job = <<>>
    /\ steps = 4
    /\ sent = "none"

\* Time passes, the timer of run_daily fires, send_message returns.
LiveSpec ==
    /\ LiveInit
    /\ [][LiveNext]_vars
    /\ WF_vars(LongTick)
    /\ WF_vars(daily_check)
    /\ WF_vars(check_due_dates_save)

\* ================================================================ properties
Records == DOMAIN progress.syllabi_progress
selected == syllabi.current_field
interval_days == progress.global_settings.reminder_interval

\* the record of s after the step
record_after(s) == progress'.syllabi_progress[s]

\* the record a handler works on: the stored one, or the one it makes
loaded(s) == record(get_syllabus_progress(progress, s), s)

FullyCompleted(s) ==
    s \in Records /\ record(progress, s).current_week > len_tasks(s)

ActiveTask(s) ==
    0 < loaded(s).current_week /\ loaded(s).current_week <= len_tasks(s)

\* a press of "Yes", of "No", of "Yes, reset" that finds a selected syllabus
YesStep == handle_yes_response /\ selected # ""
NoStep == handle_no_response /\ selected # ""
ResetStep == handle_reset_yes /\ reset_yes_answer.kind = "progress_reset"

\* C1: the "Yes" press that is the n-th since the record of a syllabus of n
\* tasks was made fresh leaves current_week = n + 1 and completed_weeks =
\* {0, ..., n-1}: the syllabus is Completed.
C1_AllTasksCompleted ==
    [][YesStep =>
         LET n == len_tasks(selected)
             sp == record_after(selected)
         IN  sp.yes_count = n =>
               /\ sp.current_week = n + 1
               /\ Range(sp.completed_weeks) = 0..(n - 1)
               /\ Len(sp.completed_weeks) = n]_vars

\* C1 witness: a syllabus of at least two tasks completed by as many presses
C1_Witness ==
    \E s \in Records :
        /\ len_tasks(s) >= 2
        /\ record(progress, s).yes_count = len_tasks(s)
        /\ record(progress, s).current_week = len_tasks(s) + 1
        /\ Range(record(progress, s).completed_weeks) = 0..(len_tasks(s) - 1)

\* C2 (as claimed): no step other than the confirmed reset lowers the
\* current_week of a record, so a Completed syllabus stays Completed.
C2_WeekNeverDecreases ==
    [][handle_reset_yes \/
       \A s \in Records :
           s \in DOMAIN progress'.syllabi_progress =>
               record_after(s).current_week >= record(progress, s).current_week]_vars

\* C3 (as claimed): once a syllabus is fully completed, and until it is reset,
\* /current on it shows no task and "Yes" reports the completed syllabus.
C3_CompletedStaysReported ==
    [][\A s \in Records :
           (FullyCompleted(s) /\ ~ResetStep /\ syllabi'.current_field = s) =>
               /\ current_week_answer'.kind # "current_task"
               /\ yes_answer'.kind = "syllabus_completed"]_vars

\* C4 (as claimed): every index in completed_weeks is below the number of
\* tasks of its syllabus.
C4_CompletedIndexInRange ==
    \A s \in Records :
        \A i \in Range(record(progress, s).completed_weeks) : i < len_tasks(s)

\* C5: the confirmed reset of a syllabus that has a record leaves the record
\* with current_week = 1, no completed weeks, no completion dates, start_date
\* = now and due_date = now + interval, whatever the record was; a second
\* reset at the same instant changes nothing more.
C5_ResetYieldsFresh ==
    [][ResetStep =>
         LET sp == record_after(selected)
         IN  /\ sp.current_week = 1
             /\ sp.completed_weeks = <<>>
             /\ DOMAIN sp.completion_dates = {}
             /\ sp.start_date = now
             /\ sp.due_date = now + timedelta(interval_days)
             /\ reset_record(progress', selected) = progress']_vars

\* C5 witness: a record written by the reset, later than time 0
C5_Witness ==
    /\ selected \in Records
    /\ record(progress, selected).origin = "reset"
    /\ record(progress, selected).start_date = now
    /\ now > 0

\* C6: no index occurs twice in completed_weeks.
C6_NoDuplicateIndex ==
    \A s \in Records :
        Len(record(progress, s).completed_weeks)
            = Cardinality(Range(record(progress, s).completed_weeks))

\* C6 witness: a "Yes" press found its index already recorded
C6_Witness ==
    \E s \in Records :
        /\ record(progress, s).completed_weeks # <<>>
        /\ record(progress, s).yes_count > Len(record(progress, s).completed_weeks)
\* C7: "Yes" on an active task at time now records completion_dates[
\* current_week - 1] = now, adds exactly 1 to current_week and sets due_date =
\* now + interval, whatever the due date was.
C7_CompleteAdvances ==
    [][(YesStep /\ ActiveTask(selected)) =>
         LET old == loaded(selected)
             new == record_after(selected)
         IN  /\ (old.current_week - 1) \in DOMAIN new.completion_dates
             /\ new.completion_dates[old.current_week - 1] = now
             /\ new.current_week = old.current_week + 1
             /\ new.due_date = now + timedelta(interval_days)]_vars

\* C7 witness: the first task was completed after its interval had run out
C7_Witness ==
    \E s \in Records :
        LET sp == record(progress, s)
        IN  /\ sp.yes_count = 1
            /\ sp.current_week = 2
            /\ sp.completion_dates[0] = now
            /\ sp.due_date = now + timedelta(interval_days)
            /\ now > sp.start_date + timedelta(interval_days)

\* C8: "No" on an active task moves due_date later by max(3, interval div 2)
\* days and changes nothing else: not the week, the completed weeks or the
\* completion dates, no other record, not the settings, not the catalog.
C8_DeferExtendsOnly ==
    [][(NoStep /\ ActiveTask(selected)) =>
         LET old == loaded(selected)
             half == interval_days \div 2
             later == timedelta(IF half > 3 THEN half ELSE 3)
         IN  /\ record_after(selected) = [old EXCEPT !.due_date = @ + later]
             /\ \A s \in Records \ {selected} :
                    /\ s \in DOMAIN progress'.syllabi_progress
                    /\ record_after(s) = record(progress, s)
             /\ progress'.global_settings = progress.global_settings
             /\ syllabi' = syllabi]_vars

\* C8 witness: a due date extended by half of an interval of more than 7 days
C8_Witness ==
    \E s \in Records :
        LET sp == record(progress, s)
        IN  /\ interval_days \div 2 > 3
            /\ sp.current_week = 1
            /\ sp.due_date = sp.start_date
                               + timedelta(interval_days + interval_days \div 2)

\* C9: /set_interval with less than 1 day answers "use a positive number" and
\* leaves both documents as they are; the stored interval is always >= 1.
C9_BadIntervalRefused ==
    /\ [][\A args \in IntervalArgs :
            (args # <<>> /\ args[1] < 1 /\ set_reminder_interval(args)) =>
                /\ set_interval_answer(args) = "use_a_positive_number"
                /\ UNCHANGED <<progress, syllabi>>]_vars
    /\ [](interval_days >= 1)

\* C9 witness: an update that changed nothing (such as /set_interval 0) was
\* handled after the interval had been set to its least value
C9_Witness ==
    /\ interval_days = 1
    /\ steps = 2
    /\ progress.syllabi_progress = <<>>

\* C10: /set_interval with days >= 1 stores days as the interval and, when a
\* syllabus is selected, sets its due_date = now + days; no record's
\* current_week or completed_weeks changes, and no due_date but the selected
\* syllabus's.
C10_IntervalSet ==
    [][\A args \in IntervalArgs :
         (args # <<>> /\ args[1] >= 1 /\ set_reminder_interval(args)) =>
             /\ progress'.global_settings.reminder_interval = args[1]
             /\ selected # "" =>
                    record_after(selected).due_date = now + timedelta(args[1])
             /\ \A s \in Records :
                    /\ s \in DOMAIN progress'.syllabi_progress
                    /\ record_after(s).current_week = record(progress, s).current_week
                    /\ record_after(s).completed_weeks
                           = record(progress, s).completed_weeks
                    /\ s # selected =>
                           record_after(s).due_date = record(progress, s).due_date]_vars

\* C10 witness: the interval was changed while one of two records was selected
C10_Witness ==
    /\ selected \in Records
    /\ interval_days = BigInterval
    /\ record(progress, selected).start_date < now
    /\ record(progress, selected).due_date = now + timedelta(BigInterval)
    /\ \E s \in Records \ {selected} :
           record(progress, s).due_date
               = record(progress, s).start_date + timedelta(DefaultInterval)

\* C11: pausing a syllabus sets its paused flag and clears current_field
\* exactly when current_field is that syllabus, after which /current answers
\* that no syllabus is active; resuming clears the flag and leaves
\* current_field as it is.
C11_PauseClearsResumeKeeps ==
    [][\A n \in Syllabi :
         /\ pause_syllabus_callback(n) =>
               /\ syllabi'.syllabi[n].paused
               /\ syllabi'.current_field = IF selected = n THEN "" ELSE selected
               /\ selected = n => current_week_answer'.kind = "no_active"
         /\ resume_syllabus_callback(n) =>
               /\ ~syllabi'.syllabi[n].paused
               /\ syllabi'.current_field = selected]_vars

\* C11 witness: a syllabus that was selected (it has a record) is paused and
\* nothing is selected any more
C11_Witness ==
    /\ selected = ""
    /\ current_week_answer.kind = "no_active"
    /\ \E n \in Records : is_paused(n)

\* C12: current_field is empty or names a syllabus of the catalog that is
\* not paused.
C12_CurrentIsActive ==
    selected = "" \/ (selected \in DOMAIN syllabi.syllabi /\ ~is_paused(selected))

\* C12 witness: a syllabus is selected while another one, selected before
\* it, is paused
C12_Witness ==
    /\ selected \in Records
    /\ \E n \in Records \ {selected} : is_paused(n)

\* the record the handlers find for s is fresh
Fresh(s) == loaded(s).current_week = 1 /\ loaded(s).completed_weeks = <<>>

\* C13: selecting with /start sets due_date = now + interval when the
\* record of the syllabus is fresh (current_week = 1, nothing completed) and
\* leaves due_date as it was otherwise.
C13_SelectDueOnlyWhenFresh ==
    [][\A n \in Syllabi :
         (start_syllabus_callback(n) /\ selectable(n)) =>
             record_after(n).due_date =
                 IF Fresh(n) THEN now + timedelta(interval_days)
                             ELSE loaded(n).due_date]_vars

\* C13 witness: a syllabus with a completed task is selected again, after
\* another record was made later than the completion, and its due date is
\* still the one the completion set
C13_Witness ==
    /\ selected \in Records
    /\ record(progress, selected).current_week = 2
    /\ 0 \in DOMAIN record(progress, selected).completion_dates
    /\ record(progress, selected).due_date
           = record(progress, selected).completion_dates[0] + timedelta(interval_days)
    /\ \E t \in Records \ {selected} :
           record(progress, t).start_date > record(progress, selected).completion_dates[0]

\* C14 (as claimed): switching to an unpaused syllabus of the catalog makes it
\* current, sets due_date = now + interval whether the record is fresh or
\* not, and leaves its current_week and completed_weeks unchanged.
C14_SwitchKeepsWeek ==
    [][\A n \in Syllabi :
         (switch_syllabus_callback(n) /\ selectable(n)) =>
             /\ syllabi'.current_field = n
             /\ record_after(n).due_date = now + timedelta(interval_days)
             /\ record_after(n).current_week = loaded(n).current_week
             /\ record_after(n).completed_weeks = loaded(n).completed_weeks]_vars

\* C15 (as claimed): /start and /switch answer "not found" for a name that
\* is not in the catalog and "is paused" for a paused syllabus, and in both
\* cases leave current_field and the progress document unchanged.
C15_NotFoundDistinctFromPaused ==
    [][\A n \in Names :
         ((start_syllabus_callback(n) \/ switch_syllabus_callback(n))
              /\ ~selectable(n)) =>
             /\ select_answer(n).kind =
                    IF n \in DOMAIN syllabi.syllabi THEN "is_paused" ELSE "not_found"
             /\ syllabi'.current_field = selected
             /\ progress' = progress]_vars

reminders_enabled == progress.global_settings.reminders_enabled

\* whole days from now to the due date of s, as timedelta.days gives them
DaysLeft(s) == days(loaded(s).due_date - now)

\* whole days since the stored last_reminder, the year 2000 when there is none
DaysSinceReminder == days(now - last_reminder(progress))

\* the due date of s calls for a notice: s is not paused, has a task left,
\* and is due today or tomorrow, or overdue with the reminder gap passed
Qualifies(s) ==
    /\ ~is_paused(s)
    /\ loaded(s).current_week <= len_tasks(s)
    /\ \/ DaysLeft(s) \in 0..1
       \/ DaysLeft(s) < 0 /\ DaysSinceReminder >= OverdueGap

\* C16: a run of the reminder job with reminders disabled, or with no
\* syllabus selected, or with the selected syllabus paused, sends nothing
\* and changes neither file, nor is a save left pending.
C16_SkippedRunSilent ==
    [][(/\ check_due_dates
        /\ \/ ~reminders_enabled
           \/ selected = ""
           \/ is_paused(selected)) =>
            /\ sent' = "silent"
            /\ UNCHANGED <<syllabi, progress, job>>]_vars

\* C16 witness: the last run sent nothing; reminders are disabled and the
\* selected syllabus has been due tomorrow since its record was made
C16_Witness ==
    /\ sent = "silent"
    /\ ~reminders_enabled
    /\ selected \in Records
    /\ record(progress, selected).start_date = now
    /\ Qualifies(selected)

\* C17: a run with reminders enabled and a selected, unpaused syllabus that
\* has a task left and 0 <= days remaining <= 1 sends one notice, "due
\* today" for 0 and "due tomorrow" for 1, whatever last_reminder is, and
\* leaves no save pending.
C17_DueSoonEveryRun ==
    [][(/\ check_due_dates
        /\ reminders_enabled
        /\ selected # ""
        /\ ~is_paused(selected)
        /\ loaded(selected).current_week <= len_tasks(selected)
        /\ DaysLeft(selected) \in 0..1) =>
            /\ sent' = IF DaysLeft(selected) = 0 THEN "due_today" ELSE "due_tomorrow"
            /\ UNCHANGED job]_vars

\* C17 witness: "due tomorrow" was sent although the overdue notice went out
\* at this very instant
C17_Witness ==
    /\ sent = "due_tomorrow"
    /\ progress.global_settings.last_reminder = <<now>>
    /\ selected # ""
    /\ DaysLeft(selected) = 1

\* C18: the overdue notice is sent only for an overdue task and only when
\* three whole days have passed since last_reminder (the year 2000 when
\* unset); the save that follows it stores last_reminder = now and nothing
\* else changes last_reminder; so the notice that is just out is at least
\* three days after the one before it, whatever was completed or switched in
\* between.
C18_OverdueThrottled ==
    /\ [][/\ (check_due_dates /\ sent' = "overdue") =>
                /\ DaysLeft(selected) < 0
                /\ DaysSinceReminder >= OverdueGap
          /\ check_due_dates_save =>
                progress'.global_settings.last_reminder = <<now>>
          /\ ~check_due_dates_save =>
                progress'.global_settings.last_reminder
                    = progress.global_settings.last_reminder]_vars
    /\ [](job # <<>> => DaysSinceReminder >= OverdueGap)

\* C18 witness: a second overdue notice is out, three days or more after the
\* first, with a task completed in between
C18_Witness ==
    /\ sent = "overdue"
    /\ job # <<>>
    /\ progress.global_settings.last_reminder # <<>>
    /\ DaysSinceReminder >= OverdueGap
    /\ selected \in Records
    /\ \E i \in DOMAIN record(progress, selected).completion_dates :
           /\ record(progress, selected).completion_dates[i] < now
           /\ record(progress, selected).completion_dates[i]
                  > last_reminder(progress)

\* C19: a run finding the selected syllabus with current_week > len(tasks)
\* sends nothing and leaves no save pending, whatever the due date.
C19_NoNoticeWhenCompleted ==
    [][(/\ check_due_dates
        /\ selected # ""
        /\ loaded(selected).current_week > len_tasks(selected)) =>
            /\ sent' = "silent"
            /\ UNCHANGED job]_vars

\* C19 witness: the last run sent nothing, with reminders enabled and the
\* selected syllabus completed and due today or tomorrow
C19_Witness ==
    /\ sent = "silent"
    /\ reminders_enabled
    /\ selected \in Records
    /\ ~is_paused(selected)
    /\ FullyCompleted(selected)
    /\ DaysLeft(selected) \in 0..1

\* C20 (as claimed): a run with reminders enabled sends a notice for every
\* unpaused syllabus with a record whose due date qualifies, selected or
\* not.  A notice names syllabi["current_field"], so a notice for s is a
\* notice sent while s is selected.
C20_EveryActiveEvaluated ==
    [][(check_due_dates /\ reminders_enabled) =>
          \A s \in Records :
              Qualifies(s) => (sent' # "silent" /\ selected = s)]_vars

\* C20 (amended): a run looks at the selected syllabus only: it sends a
\* notice exactly when reminders are enabled, a syllabus is selected and
\* that syllabus qualifies; the due dates of the other syllabi play no part.
C20_OnlySelectedEvaluated ==
    [][check_due_dates =>
          (sent' # "silent"
              <=> (reminders_enabled /\ selected # "" /\ Qualifies(selected)))]_vars

\* C20 witness: the last run sent nothing, with reminders enabled, while an
\* unpaused syllabus that is not the selected one is due and the selected
\* one is not
C20_Witness ==
    /\ sent = "silent"
    /\ reminders_enabled
    /\ selected \in Records
    /\ ~Qualifies(selected)
    /\ \E s \in Records \ {selected} :
           Qualifies(s) /\ record(progress, s).start_date < now

\* C21 (as claimed): whatever the handlers saved while a run of the job was
\* suspended in send_message is still in progress.json after the run's save:
\* the save adds last_reminder = now to the document on disk and changes
\* nothing else.
C21_HandlerUpdateSurvivesRun ==
    [][check_due_dates_save =>
          progress' = [progress EXCEPT !.global_settings.last_reminder = <<now>>]]_vars

\* a difference of two instants in whole days, rounded toward zero
TruncDays(delta) ==
    IF delta >= 0 THEN delta \div DayLen ELSE 0 - ((0 - delta) \div DayLen)

\* C22 (as claimed): the days remaining the job and /statistics compute for a
\* record are (due_date - now) in whole days rounded toward zero, so a due
\* date less than a day in the past gives 0.
C22_DaysTruncatedTowardZero ==
    /\ \A s \in Records :
           days_remaining(progress, s) = TruncDays(record(progress, s).due_date - now)
    /\ selected # "" =>
           statistics_answer.days_left
               = <<TruncDays(loaded(selected).due_date - now)>>

\* C23 (as claimed): pausing and resuming leave progress.json as it is, and
\* the selection that follows finds and keeps the current_week the syllabus
\* had.
C23_PauseResumeKeepProgress ==
    [][\A n \in Names :
         /\ (pause_syllabus_callback(n) \/ resume_syllabus_callback(n)) =>
                progress' = progress
         /\ (start_syllabus_callback(n) /\ selectable(n)) =>
                record_after(n).current_week = loaded(n).current_week]_vars

\* C24: every key of a record's completion_dates is an index of its
\* completed_weeks.  The keys are str(index) in the file; str is one-to-one
\* on the indices, which stand for the keys here.
C24_DatesOnlyForCompleted ==
    \A s \in Records :
        DOMAIN record(progress, s).completion_dates
            \subseteq Range(record(progress, s).completed_weeks)

\* C24 witness: a task was completed in a record that a reset had written
C24_Witness ==
    \E s \in Records :
        /\ record(progress, s).origin = "reset"
        /\ record(progress, s).completion_dates # <<>>
        /\ DOMAIN record(progress, s).completion_dates
               = Range(record(progress, s).completed_weeks)

\* C25 (as claimed): /statistics on a selected syllabus with tasks left and
\* nothing completed shows the estimate remaining_tasks * interval days.
C25_EstimateWithoutCompletions ==
    [][(/\ show_statistics
        /\ selected # ""
        /\ loaded(selected).current_week <= len_tasks(selected)
        /\ loaded(selected).completed_weeks = <<>>) =>
            statistics_answer.estimate =
                <<(len_tasks(selected) - loaded(selected).current_week + 1)
                     * interval_days>>]_vars

\* C26 (as claimed): "No" pressed when the selected syllabus is Completed
\* (current_week > len(tasks)) leaves progress.json as it is.
C26_DeferOnCompletedNoChange ==
    [][(/\ handle_no_response
        /\ selected # ""
        /\ loaded(selected).current_week > len_tasks(selected)) =>
            progress' = progress]_vars

\* C27: "Yes", "No", "Yes, reset" and /reset with no syllabus selected answer
\* that no syllabus is active and leave both files as they are.
C27_NothingSelectedNoChange ==
    [][selected = "" =>
          /\ handle_yes_response =>
                (yes_answer.kind = "no_active" /\ UNCHANGED <<syllabi, progress>>)
          /\ handle_no_response =>
                (no_answer.kind = "no_active" /\ UNCHANGED <<syllabi, progress>>)
          /\ handle_reset_yes =>
                (reset_yes_answer.kind = "no_active" /\ UNCHANGED <<syllabi, progress>>)
          /\ reset_progress =>
                (reset_answer.kind = "no_active"
                    /\ UNCHANGED <<syllabi, progress, reset_prompts>>)]_vars

\* C27 witness: the selected syllabus was paused with the buttons of /check
\* and of /reset still in the chat, and an update can still be handled
C27_Witness ==
    /\ selected = ""
    /\ prompts > 0
    /\ reset_prompts > 0
    /\ steps < MaxSteps
    /\ \E n \in Records : is_paused(n)

\* C28 (as claimed): a step changes current_week and completed_weeks of no
\* syllabus other than the selected one and the one it selects, and a
\* selection or switch leaves those two fields of its target as they were.
C28_SyllabiIndependent ==
    [][/\ \A s \in Records :
              (s # selected /\ s # syllabi'.current_field) =>
                  /\ s \in DOMAIN progress'.syllabi_progress
                  /\ record_after(s).current_week = record(progress, s).current_week
                  /\ record_after(s).completed_weeks
                         = record(progress, s).completed_weeks
       /\ \A n \in Syllabi :
              ((start_syllabus_callback(n) \/ switch_syllabus_callback(n))
                   /\ selectable(n)) =>
                  /\ record_after(n).current_week = loaded(n).current_week
                  /\ record_after(n).completed_weeks = loaded(n).completed_weeks]_vars

\* C29 (as claimed): a run of the job changes nothing on disk but
\* last_reminder, and that only when it sent the overdue notice: the run up
\* to send_message changes neither file and leaves a save pending only for
\* the overdue notice, and the save changes no record, nor the interval, nor
\* the reminders flag, nor the catalog.
C29_RunChangesOnlyLastReminder ==
    [][/\ check_due_dates =>
              /\ UNCHANGED <<syllabi, progress>>
              /\ sent' # "overdue" => UNCHANGED job
       /\ check_due_dates_save =>
              /\ syllabi' = syllabi
              /\ progress'.syllabi_progress = progress.syllabi_progress
              /\ progress'.global_settings.reminder_interval = interval_days
              /\ progress'.global_settings.reminders_enabled = reminders_enabled]_vars

\* the task of the selected, unpaused syllabus is overdue, reminders enabled
Overdue ==
    /\ reminders_enabled
    /\ selected # ""
    /\ ~is_paused(selected)
    /\ loaded(selected).current_week <= len_tasks(selected)
    /\ DaysLeft(selected) < 0

\* an overdue notice is out and its save is to come
OverdueNoticeOut == sent = "overdue" /\ job # <<>>

\* C30: a run of the job that finds the task overdue and three days passed
\* since last_reminder sends the overdue notice; and from any moment at
\* which the task is overdue and no notice is in flight, with three days
\* left on the clock, an overdue notice goes out later on unless the task
\* stops being overdue or reminders are turned off: a first one, and after
\* each one another.
C30_OverdueEventuallyNotified ==
    /\ [][((check_due_dates \/ daily_check)
              /\ Overdue /\ DaysSinceReminder >= OverdueGap) =>
             OverdueNoticeOut']_vars
    /\ (Overdue /\ job = <<>> /\ now + timedelta(OverdueGap) <= timedelta(LongDays))
           ~> (OverdueNoticeOut \/ ~Overdue)

\* C30 witness: a second overdue notice is out, sent by the daily runs alone
\* (no update was handled since the selection)
C30_Witness ==
    /\ OverdueNoticeOut
    /\ steps = 4
    /\ progress.global_settings.last_reminder # <<>>
    /\ last_reminder(progress) < now
====
